---- MODULE Spec2Model ----
(***************************************************************************)
(* Model of plot_cluster_comparison.ipynb, the notebook that compares      *)
(* clustering algorithms on toy datasets.                                  *)
(*                                                                         *)
(* The notebook is executed cell by cell, in the order of its recorded     *)
(* execution counts (1, 2, 3, 4).  The state is the interpreter's global   *)
(* namespace plus the warnings filter list and the axes drawn so far.      *)
(*   - cell 2 (lines 62-141) sets everything up and runs the loop over     *)
(*     `datasets`; the body of that loop is lines 132-139 only;            *)
(*   - cell 3 (lines 150-188) is at top level: it runs once, after the     *)
(*     dataset loop has finished;                                          *)
(*   - cell 4 (lines 217-262) runs the loop over `clustering_algorithms`   *)
(*     once and then plt.show(); its recorded output (line 208) is a       *)
(*     figure with 10 axes.                                                *)
(*                                                                         *)
(* Values computed by the libraries (scaled points, bandwidth, neighbour   *)
(* graph, fitted estimators) are kept as terms that record what they were  *)
(* computed from.  Parameter values are kept in thousandths (0.3 is 300).  *)
(* The symmetrization of line 156 is modelled on concrete matrices in the  *)
(* specification SpecSym.                                                  *)
(***************************************************************************)
EXTENDS Integers, Sequences, FiniteSets, TLC

VARIABLES
    pc,                     \* position of the run in the notebook
    default_base,           \* line 109
    datasets,               \* line 119
    i_dataset,              \* line 131
    algo_params,            \* line 131
    params,                 \* line 133
    X,                      \* lines 90, 136, 139
    y,                      \* lines 90, 136
    bandwidth,              \* line 151
    connectivity,           \* lines 154, 156
    clustering_algorithms,  \* line 177
    alg,                    \* position of the loop of line 217 (1-based)
    filters,                \* warnings.filters
    saved,                  \* filters saved by warnings.catch_warnings()
    y_pred,                 \* lines 237, 239
    scatter,                \* color argument of plt.scatter, line 251
    plot_num,               \* lines 107, 260
    cells,                  \* axes created by plt.subplot, lines 241-259
    fits,                   \* every call of algorithm.fit, line 233
    failed,                 \* the estimator whose fit raised, or NoFailure
    paramsLog,              \* value of params after each merge, line 134
    built,                  \* every execution of lines 150-188
    symPc, symIn, symOut,   \* SpecSym: the matrix of lines 154-156
    genPc,                  \* SpecGen: position in lines 75-98
    genRun,                 \* SpecGen: which run of lines 75-98 this is
    np_random,              \* SpecGen: numpy's global RandomState
    gen,                    \* SpecGen: the datasets generated by this run
    firstRun,               \* SpecGen: the datasets generated by the first run
    kernels                 \* SpecGen: entropy each kernel started with

mainVars == <<pc, default_base, datasets, i_dataset, algo_params, params, X, y,
              bandwidth, connectivity, clustering_algorithms, alg, filters,
              saved, y_pred, scatter, plot_num, cells, fits, failed,
              paramsLog, built>>
symVars == <<symPc, symIn, symOut>>
genVars == <<genPc, genRun, np_random, gen, firstRun, kernels>>
vars == <<mainVars, symVars, genVars>>

None == "None"
\* i_dataset before the loop of line 131 has bound it.
Unbound == -1
\* failed while no fit has raised (estimators are numbered from 1).
NoFailure == 0

\* Number of points of a dataset kept by the model (n_samples, line 81).
NPts == 2
\* Largest cluster label a fit may return.
MaxLabel == 9
\* Number of points of the neighbour graph in SpecSym.
SymN == 3
\* Largest entropy value a fresh kernel may seed numpy's global generator with.
MaxEntropy == 7

Max(S) == CHOOSE m \in S : \A x \in S : x <= m
Range(s) == {s[i] : i \in DOMAIN s}

-----------------------------------------------------------------------------
(* Parameter sets, lines 109-134 *)

EmptyDict == [k \in {} |-> 0]

DefaultBase ==
    [quantile |-> 300, eps |-> 300, damping |-> 900, preference |-> -200000,
     n_neighbors |-> 10000, n_clusters |-> 3000, min_samples |-> 20000,
     xi |-> 50, min_cluster_size |-> 100]

DatasetTableNullTuned ==
    << [data |-> "noisy_circles", labels |-> "noisy_circles",
        algo_params |-> [damping |-> 770, preference |-> -240000,
                         quantile |-> 200, n_clusters |-> 2000,
                         min_samples |-> 20000, xi |-> 250]],
       [data |-> "noisy_moons", labels |-> "noisy_moons",
        algo_params |-> [damping |-> 750, preference |-> -220000,
                         n_clusters |-> 2000]],
       [data |-> "varied", labels |-> "varied",
        algo_params |-> [eps |-> 180, n_neighbors |-> 2000,
                         min_samples |-> 5000, xi |-> 35,
                         min_cluster_size |-> 200]],
       [data |-> "aniso", labels |-> "aniso",
        algo_params |-> [eps |-> 150, n_neighbors |-> 2000,
                         min_samples |-> 20000, xi |-> 100,
                         min_cluster_size |-> 200]],
       [data |-> "blobs", labels |-> "blobs", algo_params |-> EmptyDict],
       [data |-> "no_structure", labels |-> None,
        algo_params |-> [eps |-> 150]] >>

DatasetTable ==
    << [data |-> "noisy_circles", labels |-> "noisy_circles",
        algo_params |-> [damping |-> 770, preference |-> -240000,
                         quantile |-> 200, n_clusters |-> 2000,
                         min_samples |-> 20000, xi |-> 250]],
       [data |-> "noisy_moons", labels |-> "noisy_moons",
        algo_params |-> [damping |-> 750, preference |-> -220000,
                         n_clusters |-> 2000]],
       [data |-> "varied", labels |-> "varied",
        algo_params |-> [eps |-> 180, n_neighbors |-> 2000,
                         min_samples |-> 5000, xi |-> 35,
                         min_cluster_size |-> 200]],
       [data |-> "aniso", labels |-> "aniso",
        algo_params |-> [eps |-> 150, n_neighbors |-> 2000,
                         min_samples |-> 20000, xi |-> 100,
                         min_cluster_size |-> 200]],
       [data |-> "blobs", labels |-> "blobs", algo_params |-> EmptyDict],
       [data |-> "no_structure", labels |-> None, algo_params |-> EmptyDict] >>

\* dict.update with the keys of the first argument winning.
UpdateKeepsOld(d, o) ==
    [k \in (DOMAIN d) \cup (DOMAIN o) |-> IF k \in DOMAIN d THEN d[k] ELSE o[k]]

\* d.update(o): the dict d after the call.
Update(d, o) ==
    [k \in (DOMAIN d) \cup (DOMAIN o) |-> IF k \in DOMAIN o THEN o[k] ELSE d[k]]

\* params = default_base; params.update(algo_params): without the copy both
\* names denote one dict.
MergeStepAliased(base, over) ==
    [default_base |-> Update(base, over), algo_params |-> over,
     params |-> Update(base, over)]

\* params = default_base.copy(); params.update(algo_params)
\* The three objects after the two statements.
MergeStep(base, over) ==
    [default_base |-> base, algo_params |-> over, params |-> Update(base, over)]

\* StandardScaler().fit_transform(points)
Standardized(points) == [scaled |-> points]

-----------------------------------------------------------------------------
(* Cell 3, lines 150-188 *)

EstimateBandwidth(pts, p) == [of |-> pts, quantile |-> p.quantile]

KneighborsGraph(pts, p) ==
    [of |-> pts, n_neighbors |-> p.n_neighbors, include_self |-> FALSE]

\* 0.5 * (connectivity + connectivity.T), as a term over the graph
SymmetrizedTerm(g) == [symmetrized |-> g]

\* The ten (name, estimator) pairs in the order of lines 177-188.
Estimators(p, bw, conn) ==
    << [name |-> "MiniBatch\nKMeans", cls |-> "MiniBatchKMeans",
        args |-> [n_clusters |-> p.n_clusters], fitted |-> None],
       [name |-> "Affinity\nPropagation", cls |-> "AffinityPropagation",
        args |-> [damping |-> p.damping, preference |-> p.preference],
        fitted |-> None],
       [name |-> "MeanShift", cls |-> "MeanShift",
        args |-> [bandwidth |-> bw, bin_seeding |-> TRUE], fitted |-> None],
       [name |-> "Spectral\nClustering", cls |-> "SpectralClustering",
        args |-> [n_clusters |-> p.n_clusters, eigen_solver |-> "arpack",
                  affinity |-> "nearest_neighbors"], fitted |-> None],
       [name |-> "Ward", cls |-> "AgglomerativeClustering",
        args |-> [n_clusters |-> p.n_clusters, linkage |-> "ward",
                  connectivity |-> conn], fitted |-> None],
       [name |-> "Agglomerative\nClustering", cls |-> "AgglomerativeClustering",
        args |-> [linkage |-> "average", affinity |-> "cityblock",
                  n_clusters |-> p.n_clusters, connectivity |-> conn],
        fitted |-> None],
       [name |-> "DBSCAN", cls |-> "DBSCAN",
        args |-> [eps |-> p.eps], fitted |-> None],
       [name |-> "OPTICS", cls |-> "OPTICS",
        args |-> [min_samples |-> p.min_samples, xi |-> p.xi,
                  min_cluster_size |-> p.min_cluster_size], fitted |-> None],
       [name |-> "BIRCH", cls |-> "Birch",
        args |-> [n_clusters |-> p.n_clusters], fitted |-> None],
       [name |-> "Gaussian\nMixture", cls |-> "GaussianMixture",
        args |-> [n_components |-> p.n_clusters, covariance_type |-> "full"],
        fitted |-> None] >>

\* hasattr(algorithm, 'labels_') after fit: every estimator of the table
\* but GaussianMixture sets labels_.
HasLabelsAttr(est) == est.cls # "GaussianMixture"

-----------------------------------------------------------------------------
(* Warning filters, lines 221-233 *)

KneighborsFilter ==
    [action |-> "ignore", category |-> "UserWarning",
     message |-> "the number of connected components of the connectivity matrix is [0-9]{1,2} > 1. Completing it to avoid stopping the tree early."]

SpectralFilter ==
    [action |-> "ignore", category |-> "UserWarning",
     message |-> "Graph is not fully connected, spectral embedding may not work as expected."]

\* The filters the interpreter starts with.
InterpreterFilters == << [action |-> "default", category |-> "builtin",
                          message |-> ""] >>

\* warnings.filterwarnings inserts at the front of the list.
FilterWarnings(list, f) == <<f>> \o list

\* catch_warnings.__exit__ without the restore.
ExitKeepsFilters(savedList, current) == current

\* catch_warnings.__exit__: warnings.filters is the list saved on entry.
ExitCatchWarnings(savedList, current) == savedList

-----------------------------------------------------------------------------
(* Colors, lines 245-251 *)

Palette == << "#377eb8", "#ff7f00", "#4daf4a", "#f781bf", "#a65628",
              "#984ea3", "#999999", "#e41a1c", "#dede00" >>

Black == "#000000"

\* islice(cycle(seq), n) stopping one element early.
CycleSliceShort(seq, n) ==
    [i \in 1..(IF n > 0 THEN n - 1 ELSE 0) |-> seq[((i - 1) % Len(seq)) + 1]]

\* list(islice(cycle(seq), n))
CycleSlice(seq, n) ==
    [i \in 1..(IF n > 0 THEN n ELSE 0) |-> seq[((i - 1) % Len(seq)) + 1]]

\* The color list without the appended black.
NoAppend(cs) == cs

\* np.append(colors, ["#000000"])
AppendBlack(cs) == cs \o <<Black>>

\* arr[i] for a numpy array and an integer i: a negative i counts from the end.
NumpyIndex(arr, i) == IF i >= 0 THEN arr[i + 1] ELSE arr[Len(arr) + i + 1]

InBounds(arr, i) == -Len(arr) <= i /\ i < Len(arr)

\* colors of lines 245-250 for the label vector yp
Colors(yp) == AppendBlack(CycleSlice(Palette, Max(Range(yp)) + 1))

\* colors[y_pred], line 251
PointColors(yp) ==
    LET colors == Colors(yp)
    IN  [p \in DOMAIN yp |-> NumpyIndex(colors, yp[p])]

\* Whether colors[y_pred] stays inside the array (numpy raises IndexError
\* otherwise).
IndexOk(yp) ==
    LET colors == Colors(yp)
    IN  \A p \in DOMAIN yp : InBounds(colors, yp[p])

\* Label vectors of n_samples points with labels from lo to MaxLabel.  The
\* points are interchangeable in lines 236-251, so one vector stands for all
\* its permutations: the non-decreasing one.
SortedVectors(lo) ==
    {v \in [1..NPts -> lo..MaxLabel] : \A i \in 1..(NPts - 1) : v[i] <= v[i + 1]}

\* algorithm.labels_.astype(int), line 237: cluster indices, -1 for outliers.
LabelsAttrVectors == SortedVectors(0 - 1)

\* algorithm.predict(X), line 239: component indices.
PredictVectors == SortedVectors(0)

\* Lines 236-239.
LabelVectors(est) ==
    IF HasLabelsAttr(est) THEN LabelsAttrVectors ELSE PredictVectors

-----------------------------------------------------------------------------
(* Symmetrization on concrete matrices, line 156.  A number is a pair      *)
(* <<n, e>> standing for n / 2^e, as a binary floating point value.        *)

RECURSIVE Norm(_)
Norm(d) == IF d[2] > 0 /\ d[1] % 2 = 0 THEN Norm(<<d[1] \div 2, d[2] - 1>>)
           ELSE d

RECURSIVE Pow2(_)
Pow2(n) == IF n = 0 THEN 1 ELSE 2 * Pow2(n - 1)

Add(a, b) ==
    LET e == IF a[2] >= b[2] THEN a[2] ELSE b[2]
    IN  Norm(<<a[1] * Pow2(e - a[2]) + b[1] * Pow2(e - b[2]), e>>)

\* 0.5 * d
Half(d) == Norm(<<d[1], d[2] + 1>>)

Idx == 1..SymN

Transpose(C) == [i \in Idx |-> [j \in Idx |-> C[j][i]]]

MatAdd(A, B) == [i \in Idx |-> [j \in Idx |-> Add(A[i][j], B[i][j])]]

Scale05(A) == [i \in Idx |-> [j \in Idx |-> Half(A[i][j])]]

\* connectivity + connectivity.T, the factor 0.5 left out
SymmetrizeNoHalf(C) == MatAdd(C, Transpose(C))

\* 0.5 * (connectivity + connectivity.T)
Symmetrize(C) == Scale05(MatAdd(C, Transpose(C)))

\* kneighbors_graph(..., include_self=False) in its default mode: entries
\* 0 and 1, nothing on the diagonal.
KnnGraphs ==
    {C \in [Idx -> [Idx -> {<<0, 0>>, <<1, 0>>}]] :
        \A i \in Idx : C[i][i] = <<0, 0>>}

-----------------------------------------------------------------------------
(* The run *)

InitRun ==
    /\ pc = "cell2"
    /\ default_base = DefaultBase
    /\ datasets = DatasetTable
    /\ i_dataset = Unbound
    /\ algo_params = None
    /\ params = None
    /\ X = "make_blobs_170"
    /\ y = "make_blobs_170"
    /\ bandwidth = None
    /\ connectivity = None
    /\ clustering_algorithms = <<>>
    /\ alg = 0
    /\ filters = InterpreterFilters
    /\ saved = None
    /\ y_pred = <<>>
    /\ scatter = <<>>
    /\ plot_num = 1
    /\ cells = {}
    /\ fits = <<>>
    /\ failed = NoFailure
    /\ paramsLog = <<>>
    /\ built = <<>>

\* Lines 75-98 are not being followed.
GenOff ==
    /\ genPc = "off"
    /\ genRun = 0
    /\ np_random = None
    /\ gen = <<>>
    /\ firstRun = <<>>
    /\ kernels = <<>>

\* Line 156 is not being followed.
SymOff ==
    /\ symPc = "off"
    /\ symIn = None
    /\ symOut = None

Init ==
    /\ InitRun
    /\ symPc = "off"
    /\ symIn = None
    /\ symOut = None
    /\ GenOff

\* One iteration of the loop of line 131: lines 132-139.
DatasetIter ==
    /\ pc = "cell2"
    /\ Len(paramsLog) < Len(datasets)
    /\ LET i == Len(paramsLog)
           entry == datasets[i + 1]
           m == MergeStep(default_base, entry.algo_params)
       IN  /\ i_dataset' = i
           /\ algo_params' = m.algo_params
           /\ default_base' = m.default_base
           /\ datasets' = [datasets EXCEPT ![i + 1].algo_params = m.algo_params]
           /\ params' = m.params
           /\ X' = Standardized(entry.data)
           /\ y' = entry.labels
           /\ paramsLog' = Append(paramsLog, m.params)
    /\ UNCHANGED <<pc, bandwidth, connectivity, clustering_algorithms, alg,
                   filters, saved, y_pred, scatter, plot_num, cells, fits,
                   failed, built, symVars, genVars>>

\* The loop of line 131 is exhausted: cell 2 ends.
EndCell2 ==
    /\ pc = "cell2"
    /\ Len(paramsLog) = Len(datasets)
    /\ pc' = "cell3"
    /\ UNCHANGED <<default_base, datasets, i_dataset, algo_params, params, X, y,
                   bandwidth, connectivity, clustering_algorithms, alg, filters,
                   saved, y_pred, scatter, plot_num, cells, fits, failed,
                   paramsLog, built, symVars, genVars>>

\* Cell 3, lines 150-188.
Cell3 ==
    /\ pc = "cell3"
    /\ LET bw == EstimateBandwidth(X, params)
           conn == SymmetrizedTerm(KneighborsGraph(X, params))
       IN  /\ bandwidth' = bw
           /\ connectivity' = conn
           /\ clustering_algorithms' = Estimators(params, bw, conn)
           /\ built' = Append(built, [i_dataset |-> i_dataset, params |-> params,
                                      points |-> X, bandwidth |-> bw,
                                      connectivity |-> conn])
    /\ pc' = "for"
    /\ UNCHANGED <<default_base, datasets, i_dataset, algo_params, params, X, y,
                   alg, filters, saved, y_pred, scatter, plot_num, cells, fits,
                   failed, paramsLog, symVars, genVars>>

\* Line 217: the loop takes its next (name, algorithm); line 221 enters
\* warnings.catch_warnings().
CatchWarnings ==
    /\ pc = "for"
    /\ alg < Len(clustering_algorithms)
    /\ alg' = alg + 1
    /\ saved' = filters
    /\ pc' = "filter1"
    /\ UNCHANGED <<default_base, datasets, i_dataset, algo_params, params, X, y,
                   bandwidth, connectivity, clustering_algorithms, filters,
                   y_pred, scatter, plot_num, cells, fits, failed, paramsLog,
                   built, symVars, genVars>>

\* Lines 222-227.
FilterKneighbors ==
    /\ pc = "filter1"
    /\ filters' = FilterWarnings(filters, KneighborsFilter)
    /\ pc' = "filter2"
    /\ UNCHANGED <<default_base, datasets, i_dataset, algo_params, params, X, y,
                   bandwidth, connectivity, clustering_algorithms, alg, saved,
                   y_pred, scatter, plot_num, cells, fits, failed, paramsLog,
                   built, symVars, genVars>>

\* Lines 228-232.
FilterSpectral ==
    /\ pc = "filter2"
    /\ filters' = FilterWarnings(filters, SpectralFilter)
    /\ pc' = "fit"
    /\ UNCHANGED <<default_base, datasets, i_dataset, algo_params, params, X, y,
                   bandwidth, connectivity, clustering_algorithms, alg, saved,
                   y_pred, scatter, plot_num, cells, fits, failed, paramsLog,
                   built, symVars, genVars>>

\* Line 233 returns; the with block of line 221 is left.
FitOk ==
    /\ pc = "fit"
    /\ fits' = Append(fits, [alg |-> alg, X |-> X, plot_num |-> plot_num,
                             ok |-> TRUE])
    /\ clustering_algorithms' = [clustering_algorithms EXCEPT ![alg].fitted = X]
    /\ filters' = ExitCatchWarnings(saved, filters)
    /\ saved' = None
    /\ pc' = "labels"
    /\ UNCHANGED <<default_base, datasets, i_dataset, algo_params, params, X, y,
                   bandwidth, connectivity, alg, y_pred, scatter, plot_num,
                   cells, failed, paramsLog, built, symVars, genVars>>

\* Line 233 raises and the exception is swallowed: the loop body goes on.
FitRaiseSwallowed ==
    /\ pc = "fit"
    /\ fits' = Append(fits, [alg |-> alg, X |-> X, plot_num |-> plot_num,
                             ok |-> FALSE])
    /\ failed' = alg
    /\ filters' = ExitCatchWarnings(saved, filters)
    /\ saved' = None
    /\ pc' = "labels"
    /\ UNCHANGED <<default_base, datasets, i_dataset, algo_params, params, X, y,
                   bandwidth, connectivity, clustering_algorithms, alg, y_pred,
                   scatter, plot_num, cells, paramsLog, built, symVars, genVars>>

\* Line 233 raises: the with block is left, nothing catches the exception
\* and the cell, the last one with code, stops.
FitRaise ==
    /\ pc = "fit"
    /\ fits' = Append(fits, [alg |-> alg, X |-> X, plot_num |-> plot_num,
                             ok |-> FALSE])
    /\ failed' = alg
    /\ filters' = ExitCatchWarnings(saved, filters)
    /\ saved' = None
    /\ pc' = "aborted"
    /\ UNCHANGED <<default_base, datasets, i_dataset, algo_params, params, X, y,
                   bandwidth, connectivity, clustering_algorithms, alg, y_pred,
                   scatter, plot_num, cells, paramsLog, built, symVars, genVars>>

\* Lines 235-260: labels, subplot, title, colors, scatter, plot_num += 1.
Render ==
    /\ pc = "labels"
    /\ \E yp \in LabelVectors(clustering_algorithms[alg]) :
          /\ y_pred' = yp
          /\ IndexOk(yp)
          /\ scatter' = PointColors(yp)
    /\ cells' = cells \cup
          {[plot_num |-> plot_num,
            title |-> IF i_dataset = 0 THEN clustering_algorithms[alg].name
                      ELSE None,
            points |-> X,
            alg |-> alg]}
    /\ plot_num' = plot_num + 1
    /\ pc' = "for"
    /\ UNCHANGED <<default_base, datasets, i_dataset, algo_params, params, X, y,
                   bandwidth, connectivity, clustering_algorithms, alg, filters,
                   saved, fits, failed, paramsLog, built, symVars, genVars>>

\* The loop of line 217 is exhausted; line 262.
Show ==
    /\ pc = "for"
    /\ alg = Len(clustering_algorithms)
    /\ pc' = "done"
    /\ UNCHANGED <<default_base, datasets, i_dataset, algo_params, params, X, y,
                   bandwidth, connectivity, clustering_algorithms, alg, filters,
                   saved, y_pred, scatter, plot_num, cells, fits, failed,
                   paramsLog, built, symVars, genVars>>

Next ==
    \/ DatasetIter
    \/ EndCell2
    \/ Cell3
    \/ CatchWarnings
    \/ FilterKneighbors
    \/ FilterSpectral
    \/ FitOk
    \/ FitRaise
    \/ Render
    \/ Show

Spec == Init /\ [][Next]_vars

-----------------------------------------------------------------------------
(* SpecSym: line 156 applied to a neighbour graph, and applied again to    *)
(* its own result.                                                         *)

InitSym ==
    /\ InitRun
    /\ symPc = "input"
    /\ symIn \in KnnGraphs
    /\ symOut = None
    /\ GenOff

SymApply ==
    /\ symPc = "input"
    /\ symOut' = Symmetrize(symIn)
    /\ symPc' = "once"
    /\ UNCHANGED <<symIn, mainVars, genVars>>

SymReapply ==
    /\ symPc = "once"
    /\ symOut' = Symmetrize(symOut)
    /\ symPc' = "twice"
    /\ UNCHANGED <<symIn, mainVars, genVars>>

NextSym ==
    \/ SymApply
    \/ SymReapply

SpecSym == InitSym /\ [][NextSym]_vars

-----------------------------------------------------------------------------
(* SpecGen: dataset generation, lines 75-98, run twice.  A RandomState is  *)
(* the seed it was created from and the number of generator calls that     *)
(* have drawn from it; a generated dataset is a term over the arguments of *)
(* the call and the RandomState it drew from.                              *)

\* The global RandomState of a fresh kernel, seeded from the system's entropy.
FromEntropy(e) == [src |-> "entropy", value |-> e, draws |-> 0]

\* np.random.seed(s) / RandomState(s)
Seeded(s) == [src |-> "seed", value |-> s, draws |-> 0]

\* One more call has drawn from the RandomState.
Advance(rs) == [rs EXCEPT !.draws = @ + 1]

\* The explicit random_state ignored: the call draws from the global
\* RandomState.
StreamFromGlobal(random_state, global) == global

\* The RandomState a generator given random_state=<int> draws from: a new one
\* made from that seed, whatever the global RandomState is.
StreamOfSeed(random_state, global) == Seeded(random_state)

\* datasets.make_blobs(n_samples=n_samples, cluster_std=..., random_state=...)
MakeBlobs(cluster_std, random_state, global) ==
    [maker |-> "make_blobs", n_samples |-> 1500, cluster_std |-> cluster_std,
     stream |-> StreamOfSeed(random_state, global)]

\* [[0.6, -0.6], [-0.4, 0.8]]
Transformation == << <<600, -600>>, <<-400, 800>> >>

\* (np.dot(X, transformation), y)
Aniso(Xy) == [dot |-> Xy, transformation |-> Transformation]

BlobBased == {"blobs", "aniso", "varied"}

Put(f, k, v) == [x \in (DOMAIN f) \cup {k} |-> IF x = k THEN v ELSE f[x]]

InitGen ==
    /\ InitRun
    /\ SymOff
    /\ genPc = "seed"
    /\ genRun = 1
    /\ \E e \in 0..MaxEntropy :
          /\ np_random = FromEntropy(e)
          /\ kernels = <<e>>
    /\ gen = <<>>
    /\ firstRun = <<>>

\* Line 75.
Seed ==
    /\ genPc = "seed"
    /\ np_random' = Seeded(0)
    /\ genPc' = "circles"
    /\ UNCHANGED <<genRun, gen, firstRun, kernels, mainVars, symVars>>

\* Lines 82-83: no random_state, the global RandomState is drawn from.
MakeCircles ==
    /\ genPc = "circles"
    /\ gen' = Put(gen, "noisy_circles",
                  [maker |-> "make_circles", n_samples |-> 1500,
                   factor |-> 500, noise |-> 50, stream |-> np_random])
    /\ np_random' = Advance(np_random)
    /\ genPc' = "moons"
    /\ UNCHANGED <<genRun, firstRun, kernels, mainVars, symVars>>

\* Line 84.
MakeMoons ==
    /\ genPc = "moons"
    /\ gen' = Put(gen, "noisy_moons",
                  [maker |-> "make_moons", n_samples |-> 1500, noise |-> 50,
                   stream |-> np_random])
    /\ np_random' = Advance(np_random)
    /\ genPc' = "blobs"
    /\ UNCHANGED <<genRun, firstRun, kernels, mainVars, symVars>>

\* Line 85.
MakeBlobs8 ==
    /\ genPc = "blobs"
    /\ gen' = Put(gen, "blobs", MakeBlobs(1000, 8, np_random))
    /\ genPc' = "no_structure"
    /\ UNCHANGED <<genRun, np_random, firstRun, kernels, mainVars, symVars>>

\* Line 86.
NoStructure ==
    /\ genPc = "no_structure"
    /\ gen' = Put(gen, "no_structure",
                  [maker |-> "np.random.rand", n_samples |-> 1500,
                   stream |-> np_random])
    /\ np_random' = Advance(np_random)
    /\ genPc' = "aniso"
    /\ UNCHANGED <<genRun, firstRun, kernels, mainVars, symVars>>

\* Lines 89-93.
MakeAniso ==
    /\ genPc = "aniso"
    /\ gen' = Put(gen, "aniso", Aniso(MakeBlobs(1000, 170, np_random)))
    /\ genPc' = "varied"
    /\ UNCHANGED <<genRun, np_random, firstRun, kernels, mainVars, symVars>>

\* Lines 96-98.
MakeVaried ==
    /\ genPc = "varied"
    /\ gen' = Put(gen, "varied",
                  MakeBlobs(<<1000, 2500, 500>>, 170, np_random))
    /\ genPc' = "generated"
    /\ UNCHANGED <<genRun, np_random, firstRun, kernels, mainVars, symVars>>

\* The notebook is run again in the same kernel: the rest of the first run
\* has drawn from the global RandomState.
RerunSameKernel ==
    /\ genPc = "generated"
    /\ genRun = 1
    /\ genRun' = 2
    /\ firstRun' = gen
    /\ gen' = <<>>
    /\ np_random' = Advance(np_random)
    /\ genPc' = "seed"
    /\ UNCHANGED <<kernels, mainVars, symVars>>

\* The notebook is run again in a fresh kernel.
RerunFreshKernel ==
    /\ genPc = "generated"
    /\ genRun = 1
    /\ genRun' = 2
    /\ firstRun' = gen
    /\ gen' = <<>>
    /\ \E e \in 0..MaxEntropy :
          /\ np_random' = FromEntropy(e)
          /\ kernels' = Append(kernels, e)
    /\ genPc' = "seed"
    /\ UNCHANGED <<mainVars, symVars>>

NextGen ==
    \/ Seed
    \/ MakeCircles
    \/ MakeMoons
    \/ MakeBlobs8
    \/ NoStructure
    \/ MakeAniso
    \/ MakeVaried
    \/ RerunSameKernel
    \/ RerunFreshKernel

SpecGen == InitGen /\ [][NextGen]_vars

-----------------------------------------------------------------------------
(* Properties *)

GridRow(c) == (c.plot_num - 1) \div Len(clustering_algorithms)
GridCol(c) == (c.plot_num - 1) % Len(clustering_algorithms)
Rows == 0..(Len(datasets) - 1)
Cols == 0..(Len(clustering_algorithms) - 1)
HasNamedFilter == KneighborsFilter \in Range(filters) \/ SpectralFilter \in Range(filters)

\* C1: a complete run with no fit failure renders exactly 60 grid cells
\* (6 dataset rows x 10 algorithm columns), and a cell carries a column title
\* if and only if it belongs to row 0.
C1_SixtyCellsTitledRow0 ==
    (pc = "done" /\ failed = NoFailure) =>
        /\ Cardinality(cells) = Len(datasets) * Len(clustering_algorithms)
        /\ Cardinality(cells) = 60
        /\ \A c \in cells : (c.title # None) <=> (GridRow(c) = 0)

\* C2: for every dataset row the ten algorithm entries are constructed from
\* that row's merged parameter set and from the bandwidth and the symmetrized
\* connectivity derived from that row's standardized points.
C2_EstimatorsBuiltPerRow ==
    pc = "done" =>
        \A r \in Rows :
            \E k \in DOMAIN built :
                /\ built[k].i_dataset = r
                /\ built[k].params = paramsLog[r + 1]
                /\ built[k].points = Standardized(datasets[r + 1].data)
                /\ built[k].bandwidth =
                       EstimateBandwidth(built[k].points, built[k].params)
                /\ built[k].connectivity =
                       SymmetrizedTerm(KneighborsGraph(built[k].points,
                                                       built[k].params))

\* C3: for every dataset row r and algorithm column c the estimator of cell
\* (r, c) is fitted exactly once, and the points it is fitted on and that are
\* scattered in that cell are the standardized points of dataset r.
C3_EachCellFittedOnceOnItsRow ==
    (pc = "done" /\ failed = NoFailure) =>
        \A r \in Rows : \A c \in Cols :
            LET num == r * Len(clustering_algorithms) + c + 1
                pts == Standardized(datasets[r + 1].data)
                ks == {k \in DOMAIN fits :
                          fits[k].plot_num = num /\ fits[k].alg = c + 1}
            IN  /\ Cardinality(ks) = 1
                /\ \A k \in ks : fits[k].X = pts
                /\ \E cell \in cells :
                       cell.plot_num = num /\ cell.alg = c + 1 /\ cell.points = pts

\* C4: for every dataset row the merged parameter set has exactly the keys of
\* the default set; a key of the row's overrides maps to the override value
\* and every other key to its default; the moons row has n_clusters = 2 and
\* eps = 0.3.
C4_MergedIsDefaultWithOverrides ==
    /\ \A r \in DOMAIN paramsLog :
          LET m == paramsLog[r]
              o == DatasetTable[r].algo_params
          IN  /\ DOMAIN m = DOMAIN DefaultBase
              /\ \A k \in DOMAIN m :
                    m[k] = IF k \in DOMAIN o THEN o[k] ELSE DefaultBase[k]
    /\ (i_dataset # Unbound /\ pc = "cell2") => params = paramsLog[i_dataset + 1]
    /\ \A r \in DOMAIN paramsLog :
          DatasetTable[r].data = "noisy_moons" =>
              paramsLog[r].n_clusters = 2000 /\ paramsLog[r].eps = 300

C4_AllRowsMerged ==
    /\ pc = "cell2"
    /\ Len(paramsLog) = Len(datasets)
    /\ i_dataset = Len(datasets) - 1

\* C5: S(C)(i,j) = 0.5 * (C(i,j) + C(j,i)) is symmetric for every input C, and
\* idempotent: a symmetric matrix is returned unchanged, so S(S(C)) = S(C).
C5_SymmetricAndIdempotent ==
    /\ symPc \in {"once", "twice"} =>
          \A i \in Idx : \A j \in Idx : symOut[i][j] = symOut[j][i]
    /\ symPc = "once" =>
          \A i \in Idx : \A j \in Idx :
              symOut[i][j] = Half(Add(symIn[i][j], symIn[j][i]))
    /\ (symPc = "once" /\ symIn = Transpose(symIn)) => symOut = symIn
    /\ symPc = "twice" => symOut = Symmetrize(symIn)

C5_ResymmetrizedAsymmetricInput ==
    /\ symPc = "twice"
    /\ symIn # Transpose(symIn)
    /\ \E i \in Idx : \E j \in Idx : symOut[i][j] = <<1, 1>>

\* C6: every point labelled -1 is drawn in the sentinel color #000000,
\* whatever the number of clusters (none, or more than nine).
C6_OutlierIsBlack ==
    scatter # <<>> =>
        \A p \in DOMAIN y_pred : y_pred[p] = -1 => scatter[p] = "#000000"

C6_OutlierAmongManyClusters ==
    /\ scatter # <<>>
    /\ \E p \in DOMAIN y_pred : y_pred[p] = -1
    /\ \E q \in DOMAIN y_pred : y_pred[q] >= Len(Palette)

\* C7: a point with a non-negative label k gets entry k mod 9 of the palette,
\* so labels 9 apart share a color and no non-negative label is drawn black.
C7_LabelColorIsPaletteModNine ==
    scatter # <<>> =>
        /\ \A p \in DOMAIN y_pred :
              y_pred[p] >= 0 =>
                  /\ scatter[p] = Palette[(y_pred[p] % 9) + 1]
                  /\ scatter[p] # Black
        /\ \A p \in DOMAIN y_pred : \A q \in DOMAIN y_pred :
              (y_pred[p] >= 0 /\ y_pred[q] = y_pred[p] + 9) =>
                  scatter[p] = scatter[q]

C7_LabelsNineApart ==
    /\ scatter # <<>>
    /\ \E p \in DOMAIN y_pred : \E q \in DOMAIN y_pred :
          y_pred[p] >= 0 /\ y_pred[q] = y_pred[p] + 9

\* C8: when a fit raises the run stops there: the fit is not retried, no
\* later estimator is fitted, no further cell is rendered and the cell of the
\* failing estimator is never drawn.
C8_FitFailureAborts ==
    failed # NoFailure =>
        /\ pc = "aborted"
        /\ ~ ENABLED Next
        /\ Cardinality({k \in DOMAIN fits : fits[k].alg = failed}) = 1
        /\ fits[Len(fits)].alg = failed /\ ~ fits[Len(fits)].ok
        /\ \A k \in DOMAIN fits : fits[k].alg <= failed
        /\ \A c \in cells : c.alg < failed /\ c.plot_num < plot_num
        /\ Cardinality(cells) = Len(fits) - 1
        /\ ~ \E c \in cells : c.plot_num = fits[Len(fits)].plot_num

C8_FailedAfterSomeCells ==
    /\ failed # NoFailure
    /\ failed > 1
    /\ cells # {}

\* C9: the final "no structure" row is processed with exactly the same merged
\* parameter set as the blobs row immediately above it.
C9_NullRowUsesBlobsParams ==
    /\ \A r \in DOMAIN paramsLog :
          datasets[r].data = "no_structure" =>
              /\ r = Len(datasets)
              /\ r > 1
              /\ datasets[r - 1].data = "blobs"
              /\ paramsLog[r] = paramsLog[r - 1]
    /\ \A k \in DOMAIN built :
          built[k].points = Standardized("no_structure") =>
              \E r \in DOMAIN paramsLog :
                  datasets[r].data = "blobs" /\ built[k].params = paramsLog[r]

C9_NullRowProcessed ==
    /\ Len(paramsLog) = Len(datasets)
    /\ X = Standardized("no_structure")
    /\ Len(built) > 0

\* C10: the two named warning filters are in force only while a fit executes:
\* they are installed right before each fit and the previous filter state is
\* restored as soon as the fit returns or raises, so label extraction, predict,
\* plotting and the per-row setup run with the filters absent.
C10_FiltersOnlyDuringFit ==
    /\ pc \in {"cell2", "cell3", "for", "filter1", "labels", "done", "aborted"} =>
          ~ HasNamedFilter /\ filters = InterpreterFilters
    /\ pc = "filter2" => filters = <<KneighborsFilter>> \o InterpreterFilters
    /\ pc = "fit" =>
          filters = <<SpectralFilter, KneighborsFilter>> \o InterpreterFilters

C10_AfterSecondFit ==
    /\ pc = "labels"
    /\ Len(fits) = 2
    /\ ~ HasNamedFilter

\* C12: cells are filled one at a time in row-major order: the k-th fit
\* (k = 0, 1, ...) completes before the next starts and is drawn at
\* plot_num = k + 1, row floor(k / 10), column k mod 10; column c holds the
\* c-th algorithm in every row and row r holds the r-th dataset.
C12_RowMajorOrder ==
    /\ \A k \in DOMAIN fits :
          /\ fits[k].plot_num = k
          /\ fits[k].alg = ((k - 1) % Len(clustering_algorithms)) + 1
          /\ fits[k].X =
                 Standardized(datasets[((k - 1) \div Len(clustering_algorithms)) + 1].data)
    /\ Cardinality(cells) \in {Len(fits) - 1, Len(fits)}
    /\ \A c \in cells :
          /\ c.plot_num \in DOMAIN fits
          /\ fits[c.plot_num].ok
          /\ c.alg = GridCol(c) + 1
          /\ c.points = Standardized(datasets[GridRow(c) + 1].data)

\* C13: merging never modifies the default parameter set or a row's override
\* set: after any prefix of the rows default_base holds its nine initial
\* pairs, so no merged set holds a value of an earlier row's overrides.
C13_MergeLeavesInputsAlone ==
    /\ default_base = DefaultBase
    /\ Cardinality(DOMAIN default_base) = 9
    /\ \A r \in DOMAIN datasets :
          datasets[r].algo_params = DatasetTable[r].algo_params
    /\ \A r \in DOMAIN paramsLog :
          \A k \in DOMAIN paramsLog[r] :
              k \notin DOMAIN datasets[r].algo_params =>
                  paramsLog[r][k] = DefaultBase[k]

C13_RowAfterOverridingRows ==
    /\ pc = "cell2"
    /\ i_dataset = 4
    /\ Len(paramsLog) = 5
    /\ params = DefaultBase

====
